---- MODULE Spec2Model ----
(***************************************************************************)
(* Model of script.js: the popup editor (openModal / closeModal /          *)
(* saveModal and the FileReader callback it schedules) and the full-page   *)
(* editor (initExplanationPage and its save handler), both working on the  *)
(* browser's localStorage.  The two editors run in separate browsing       *)
(* contexts that share the storage.  All page elements the script looks    *)
(* up are taken to be present.                                             *)
(***************************************************************************)
EXTENDS Naturals, Sequences, FiniteSets, TLC

\* ------------------------------------------------------------------ values

\* Item identifiers carried by the data-item attributes / the item parameter.
Keys == {"cash", "variance-analysis"}
\* Contents the visitor may type into a text area.
Texts == {"", "Operating cash balance"}
\* Files the visitor may pick in a file chooser.
Files == {"a.png"}
\* At most this many FileReader loads are in flight per browsing context.
MaxReaders == 1
\* In the specification of the two browsing contexts side by side, the
\* handlers run at most this many times in all.
MaxEvents == 7

\* JavaScript null (currentItemKey with no session, getQueryParam without item).
Null == "<null>"
\* JavaScript undefined (a member a parsed object does not have).
Undefined == "<undefined>"
\* fileInput.files[0] when nothing is chosen.
NoFile == "<no file>"

\* String(v) as applied by 'explanation_' + v.
JSString(v) == IF v = Null THEN "null" ELSE v

StorageKey(key) == "explanation_" \o JSString(key)

StorageKeys == {StorageKey(k) : k \in Keys \cup {Null}}

\* FileReader.readAsDataURL: the data URL of a file's content.
Encode(f) == "data:image/png;base64," \o f

\* URLs that are relative to the document.
RelativeURLs == {"pic.png"}
BaseURL == "http://host/"

\* The src property of an image element reads back as a resolved URL.
Resolve(attr) == IF attr \in RelativeURLs THEN BaseURL \o attr ELSE attr

\* ------------------------------------------------------------------ JSON

\* JSON.stringify of { text: ..., image: ... }, as a sequence of tokens.
JSONstringify(obj) == <<"{", "text", obj.text, "image", obj.image, "}">>

IsObjectText(s) ==
  /\ Len(s) >= 2
  /\ Len(s) % 2 = 0
  /\ s[1] = "{"
  /\ s[Len(s)] = "}"
  /\ \A i \in 2..(Len(s) - 1) : s[i] \notin {"{", "}"}

\* The value of member name in the object text s (the last one wins).
Member(s, name) ==
  LET at == {i \in 1..((Len(s) - 2) \div 2) : s[2 * i] = name}
  IN IF at = {} THEN Undefined
     ELSE s[2 * (CHOOSE i \in at : \A j \in at : j <= i) + 1]

\* JSON.parse: throws on text that is no JSON; the JSON null has no members.
JSONparse(s) ==
  IF s = <<"null">>
  THEN [throws |-> FALSE, isNull |-> TRUE, text |-> Undefined, image |-> Undefined]
  ELSE IF IsObjectText(s)
  THEN [throws |-> FALSE, isNull |-> FALSE,
        text |-> Member(s, "text"), image |-> Member(s, "image")]
  ELSE [throws |-> TRUE, isNull |-> FALSE, text |-> Undefined, image |-> Undefined]

\* v || ''
OrEmpty(v) == IF v = Undefined THEN "" ELSE v

EmptyRecord == [text |-> "", image |-> ""]

\* What a load reads for key: the empty default when the entry is absent,
\* empty, unparseable or the JSON null (reading a member of null throws and
\* is caught).
ReadStored(store, key) ==
  LET sk == StorageKey(key) IN
  IF sk \notin DOMAIN store THEN EmptyRecord
  ELSE IF store[sk] = <<>> THEN EmptyRecord
  ELSE LET p == JSONparse(store[sk]) IN
       IF p.throws \/ p.isNull THEN EmptyRecord
       ELSE [text |-> OrEmpty(p.text), image |-> OrEmpty(p.image)]

\* setItem of a record that loses the image.
SetItemNoImage(store, key, text, imageData) ==
  (StorageKey(key) :> JSONstringify([text |-> text, image |-> ""])) @@ store

\* setItem that keeps the image of the entry it replaces when it is given none.
SetItemMerge(store, key, text, imageData) ==
  LET sk == StorageKey(key)
      old == IF sk \in DOMAIN store THEN JSONparse(store[sk]) ELSE JSONparse(<<>>)
      kept == IF imageData = "" /\ ~old.throws /\ ~old.isNull THEN OrEmpty(old.image)
              ELSE imageData
  IN (sk :> JSONstringify([text |-> text, image |-> kept])) @@ store

\* localStorage.setItem('explanation_' + key, JSON.stringify({text, image || ''}))
SetItem(store, key, text, imageData) ==
  (StorageKey(key) :> JSONstringify([text |-> text, image |-> imageData])) @@ store

\* The reuse of the preview with a stock picture for a preview without src.
ExistingOrStock(display, src) ==
  IF display = "none" THEN ""
  ELSE IF Resolve(src) = "" THEN Resolve("pic.png") ELSE Resolve(src)

\* The reuse of the preview with the test of its display inverted.
ExistingInverted(display, src) == IF display = "none" THEN Resolve(src) ELSE ""

\* imgPreview && imgPreview.style.display !== 'none' ? imgPreview.src : ''
Existing(display, src) == IF display # "none" THEN Resolve(src) ELSE ""

\* ------------------------------------------------------------------ URLs

\* The item identifiers letter by letter.
Spellings == { <<"c", "a", "s", "h">>,
               <<"v", "a", "r", "i", "a", "n", "c", "e", "-",
                 "a", "n", "a", "l", "y", "s", "i", "s">> }

\* The string made of the letters cs.
RECURSIVE Join(_)
Join(cs) == IF cs = <<>> THEN "" ELSE Head(cs) \o Join(Tail(cs))

\* The letters of an item identifier.
Chars(key) == CHOOSE cs \in Spellings : Join(cs) = key

Letters == {"a", "c", "e", "h", "i", "l", "n", "r", "s", "t", "v", "y", "m"}

\* The characters encodeURIComponent leaves as they are (of those used here).
Unreserved == Letters \cup {"-", "_", ".", "~"}

\* The escapes of the characters encodeURIComponent replaces (of those used
\* here), as one token each.
Escapes == (" " :> "%20") @@ ("&" :> "%26") @@ ("=" :> "%3D") @@ ("+" :> "%2B")
             @@ ("?" :> "%3F") @@ ("%" :> "%25")

\* encodeURIComponent(s), s letter by letter.
EncodeURIComponent(cs) ==
  [n \in DOMAIN cs |-> IF cs[n] \in Unreserved THEN cs[n] ELSE Escapes[cs[n]]]

\* The decoding URLSearchParams applies to a name or a value: a plus sign is
\* a space and an escape is the character it stands for.
Unescape(tok) ==
  IF tok = "+" THEN " "
  ELSE IF \E c \in DOMAIN Escapes : Escapes[c] = tok
       THEN CHOOSE c \in DOMAIN Escapes : Escapes[c] = tok
       ELSE tok

Decoded(toks) == [n \in DOMAIN toks |-> Unescape(toks[n])]

\* The null that params.get returns, set apart from every sequence of letters.
NoParam == <<Null>>

\* The index of the first sep in toks, Len(toks) + 1 when there is none.
IndexOf(toks, sep) ==
  IF \E n \in DOMAIN toks : toks[n] = sep
  THEN CHOOSE n \in DOMAIN toks : toks[n] = sep /\ \A m \in 1..(n - 1) : toks[m] # sep
  ELSE Len(toks) + 1

\* params.get(name) of URLSearchParams over the query q (no leading "?"):
\* the pairs are split at "&", each at its first "=", and the value of the
\* first pair of that name is returned, NoParam when there is none.
RECURSIVE SearchParamsGet(_, _)
SearchParamsGet(q, name) ==
  IF q = <<>> THEN NoParam
  ELSE LET amp == IndexOf(q, "&")
           pair == SubSeq(q, 1, amp - 1)
           eq == IndexOf(pair, "=")
       IN IF Decoded(SubSeq(pair, 1, eq - 1)) = name
          THEN Decoded(SubSeq(pair, eq + 1, Len(pair)))
          ELSE SearchParamsGet(SubSeq(q, amp + 1, Len(q)), name)

\* getQueryParam(name), lines 137-140, for a document at url: the search of
\* the location is what follows the first "?".
GetQueryParam(url, name) ==
  SearchParamsGet(SubSeq(url, IndexOf(url, "?") + 1, Len(url)), name)

\* const item = getQueryParam('item'), line 148, in a document at url.
ItemParam(url) ==
  LET v == GetQueryParam(url, <<"i", "t", "e", "m">>) IN
  IF v = NoParam THEN Null ELSE Join(v)

\* 'explanation.html?item=' + encodeURIComponent(key), line 128.
ExplanationURL(key) ==
  <<"explanation.html", "?", "i", "t", "e", "m", "=">> \o EncodeURIComponent(Chars(key))

\* No window: the handler run called no window.open().
NoWindow == [url |-> <<>>, target |-> ""]

\* ------------------------------------------------------------------ heading

\* The longest identifier the heading is computed for on its own.
MaxIdLen == 4

\* Identifiers given letter by letter: lower and upper case letters, a digit,
\* an underscore, the hyphen, and a full stop as a character that is neither
\* a hyphen nor a word character.
IdChars == {"a", "B", "2", "_", "-", "."}

RECURSIVE SeqsOf(_, _)
SeqsOf(S, n) ==
  IF n = 0 THEN {<<>>}
  ELSE {Append(q, c) : q \in SeqsOf(S, n - 1), c \in S}

\* An empty item parameter sets no heading (line 149).
Identifiers == UNION {SeqsOf(IdChars, n) : n \in 1..MaxIdLen}

\* c.toUpperCase() for the letters used here; other characters are their
\* own upper case.
UpperCase ==
  ("a" :> "A") @@ ("c" :> "C") @@ ("e" :> "E") @@ ("h" :> "H") @@ ("i" :> "I")
    @@ ("l" :> "L") @@ ("n" :> "N") @@ ("r" :> "R") @@ ("s" :> "S") @@ ("v" :> "V")
    @@ ("y" :> "Y")

ToUpperCase(c) == IF c \in DOMAIN UpperCase THEN UpperCase[c] ELSE c

\* \w of a regular expression: a letter, a digit or the underscore.
IsWordChar(c) ==
  \/ c \in DOMAIN UpperCase
  \/ \E l \in DOMAIN UpperCase : UpperCase[l] = c
  \/ c \in {"B", "2", "_"}

\* s.replace(/-/g, ' ')
ReplaceHyphens(cs) == [n \in DOMAIN cs |-> IF cs[n] = "-" THEN " " ELSE cs[n]]

\* A heading that upper-cases the first character of the text only.
CapitalizeFirstOnly(cs) ==
  [n \in DOMAIN cs |-> IF n = 1 THEN ToUpperCase(cs[n]) ELSE cs[n]]

\* s.replace(/\b\w/g, c => c.toUpperCase()): a word character is replaced
\* when no word character comes right before it.
CapitalizeWords(cs) ==
  [n \in DOMAIN cs |->
     IF IsWordChar(cs[n]) /\ (n = 1 \/ ~IsWordChar(cs[n - 1]))
     THEN ToUpperCase(cs[n]) ELSE cs[n]]

\* The text given to #item-heading, line 153.
Heading(cs) == CapitalizeWords(ReplaceHyphens(cs))

\* ------------------------------------------------------------------ state

VARIABLES
  storage,         \* localStorage: storage key -> stored text (token sequence)
  currentItemKey,  \* popup: the item being edited, Null when none
  modalDisplay,    \* popup: modal.style.display
  textareaValue,   \* popup: textarea.value
  previewSrc,      \* popup: the src assigned to .image-preview
  previewDisplay,  \* popup: .image-preview style.display
  fileInput,       \* popup: the chosen file, NoFile when none
  readers,         \* popup: FileReader loads in flight, each with the text its
                   \*   saveModal call captured, the file it reads and (history)
                   \*   the key of the session that triggered it
  item,            \* full page: the item parameter, Null before the page is set up
  itemChars,       \* full page: the item parameter letter by letter
  heading,         \* full page: #item-heading textContent, letter by letter
  itemText,        \* full page: #item-text value
  itemImageSrc,    \* full page: the src assigned to #item-image
  itemImageDisplay,\* full page: #item-image style.display
  itemFile,        \* full page: the file chosen in #item-file
  itemReaders,     \* full page: FileReader loads in flight, each with the file it
                   \*   reads and (history) the text area as it was at the click
  last,            \* history: the handler that ran last, the key it ran for and
                   \*   what it showed the visitor
  session,         \* history: of the popup session opened last
  roundTrip,       \* history: the record the last undisturbed popup save was given
  saved,           \* history: the keys whose own session completed a write
  budget           \* the events the visitor may still cause, or Unlimited

popupVars == <<currentItemKey, modalDisplay, textareaValue, previewSrc,
               previewDisplay, fileInput, readers>>
pageVars == <<item, itemChars, heading, itemText, itemImageSrc, itemImageDisplay, itemFile, itemReaders>>
histVars == <<last, session, roundTrip, saved>>
vars == <<storage, popupVars, pageVars, histVars, budget>>

\* ------------------------------------------------------------------ history helpers

\* No dialog: the handler run called no alert().
NoAlert == [message |-> "", stored |-> <<>>]

\* A handler run: its name, the key it ran for (currentItemKey or item as it
\* was when the handler started), the dialog it showed and the window it
\* opened, none unless said.
Ev(op, key) == [op |-> op, key |-> key, alert |-> NoAlert, opened |-> NoWindow]

NoRoundTrip == [known |-> FALSE, key |-> Null, text |-> "", image |-> ""]
RoundTrip(key, text, image) == [known |-> TRUE, key |-> key, text |-> text, image |-> image]

\* A write under storage key sk that is no undisturbed save of that key ends
\* the round trip recorded for it.
Overwritten(rt, sk) == IF rt.known /\ StorageKey(rt.key) = sk THEN NoRoundTrip ELSE rt

\* With Unlimited the number of handler runs is not bounded.
Unlimited == MaxEvents + 1

\* One more handler run is allowed, and is counted.
Spend ==
  /\ budget > 0
  /\ budget' = IF budget = Unlimited THEN Unlimited ELSE budget - 1

Remove(s, i) == SubSeq(s, 1, i - 1) \o SubSeq(s, i + 1, Len(s))

\* Stores that may be found when the pages are first visited: nothing, records
\* written by earlier visits, and entries this script does not write itself
\* (an image given by a relative URL, a truncated text, the JSON null, an
\* object without members).
InitialStores ==
  { <<>>,
    (StorageKey("cash") :> JSONstringify([text |-> "Operating cash balance",
                                          image |-> "pic.png"])),
    (StorageKey("cash") :> <<"{", "text">>) @@ (StorageKey("variance-analysis") :> <<"null">>),
    (StorageKey("cash") :> <<"{", "}">>)
      @@ (StorageKey("variance-analysis") :> JSONstringify([text |-> "", image |-> Encode("a.png")])) }

\* The inline display styles the page markup may give an image preview.
MarkupDisplays == {"", "none", "block"}

InitPopup ==
  /\ currentItemKey = Null
  /\ modalDisplay = "none"
  /\ textareaValue = ""
  /\ previewSrc = ""
  /\ previewDisplay \in MarkupDisplays
  /\ fileInput = NoFile
  /\ readers = <<>>

InitPage ==
  /\ item = Null
  /\ itemChars = <<>>
  /\ heading = <<>>
  /\ itemText = ""
  /\ itemImageSrc = ""
  /\ itemImageDisplay = ""
  /\ itemFile = NoFile
  /\ itemReaders = <<>>

InitHistory ==
  /\ last = Ev("none", Null)
  /\ session = [saveTriggered |-> FALSE, image |-> ""]
  /\ roundTrip = NoRoundTrip
  /\ saved = {k \in Keys : StorageKey(k) \in DOMAIN storage}

Init ==
  /\ storage \in InitialStores
  /\ InitPopup
  /\ InitPage
  /\ InitHistory
  /\ budget = MaxEvents

\* One browsing context on its own, with no bound on the handler runs.
InitAlone ==
  /\ storage \in InitialStores
  /\ InitPopup
  /\ InitPage
  /\ InitHistory
  /\ budget = Unlimited

\* ------------------------------------------------------------------ popup

\* openModal that fills the text area only when an entry is stored.
OpenModalKeepsText(key) ==
  LET rec == ReadStored(storage, key) IN
  /\ Spend
  /\ currentItemKey' = key
  /\ textareaValue' = IF StorageKey(key) \in DOMAIN storage THEN rec.text ELSE textareaValue
  /\ IF rec.image # ""
     THEN previewSrc' = rec.image /\ previewDisplay' = "block"
     ELSE previewSrc' = previewSrc /\ previewDisplay' = "none"
  /\ fileInput' = NoFile
  /\ modalDisplay' = "flex"
  /\ last' = Ev("openModal", key)
  /\ session' = [saveTriggered |-> FALSE, image |-> rec.image]
  /\ UNCHANGED <<storage, readers, pageVars, roundTrip, saved>>

\* openModal without the else branch that hides the preview.
OpenModalNoHide(key) ==
  LET rec == ReadStored(storage, key) IN
  /\ Spend
  /\ currentItemKey' = key
  /\ textareaValue' = rec.text
  /\ IF rec.image # ""
     THEN previewSrc' = rec.image /\ previewDisplay' = "block"
     ELSE previewSrc' = previewSrc /\ previewDisplay' = previewDisplay
  /\ fileInput' = NoFile
  /\ modalDisplay' = "flex"
  /\ last' = Ev("openModal", key)
  /\ session' = [saveTriggered |-> FALSE, image |-> rec.image]
  /\ UNCHANGED <<storage, readers, pageVars, roundTrip, saved>>

\* openModal that does not reset the file chooser.
OpenModalKeepsFile(key) ==
  LET rec == ReadStored(storage, key) IN
  /\ Spend
  /\ currentItemKey' = key
  /\ textareaValue' = rec.text
  /\ IF rec.image # ""
     THEN previewSrc' = rec.image /\ previewDisplay' = "block"
     ELSE previewSrc' = previewSrc /\ previewDisplay' = "none"
  /\ fileInput' = fileInput
  /\ modalDisplay' = "flex"
  /\ last' = Ev("openModal", key)
  /\ session' = [saveTriggered |-> FALSE, image |-> rec.image]
  /\ UNCHANGED <<storage, readers, pageVars, roundTrip, saved>>

\* openModal without the try/catch: when JSON.parse throws, the handler ends
\* right there, after the assignment of currentItemKey.
OpenModalNoCatch(key) ==
  LET rec == ReadStored(storage, key)
      thrown == /\ StorageKey(key) \in DOMAIN storage
                /\ storage[StorageKey(key)] # <<>>
                /\ JSONparse(storage[StorageKey(key)]).throws
  IN
  /\ Spend
  /\ currentItemKey' = key
  /\ IF thrown
     THEN UNCHANGED <<textareaValue, previewSrc, previewDisplay, fileInput, modalDisplay>>
     ELSE /\ textareaValue' = rec.text
          /\ IF rec.image # ""
             THEN previewSrc' = rec.image /\ previewDisplay' = "block"
             ELSE previewSrc' = previewSrc /\ previewDisplay' = "none"
          /\ fileInput' = NoFile
          /\ modalDisplay' = "flex"
  /\ last' = Ev("openModal", key)
  /\ session' = [saveTriggered |-> FALSE, image |-> rec.image]
  /\ UNCHANGED <<storage, readers, pageVars, roundTrip, saved>>

\* openModal(key), lines 37-72.
OpenModal(key) ==
  LET rec == ReadStored(storage, key) IN
  /\ Spend
  /\ currentItemKey' = key
  /\ textareaValue' = rec.text
  /\ IF rec.image # ""
     THEN previewSrc' = rec.image /\ previewDisplay' = "block"
     ELSE previewSrc' = previewSrc /\ previewDisplay' = "none"
  /\ fileInput' = NoFile
  /\ modalDisplay' = "flex"
  /\ last' = Ev("openModal", key)
  /\ session' = [saveTriggered |-> FALSE, image |-> rec.image]
  /\ UNCHANGED <<storage, readers, pageVars, roundTrip, saved>>

\* closeModal that stores the fields before it closes.
CloseModalSaves ==
  /\ Spend
  /\ storage' = IF currentItemKey = Null THEN storage
                ELSE SetItem(storage, currentItemKey, textareaValue,
                             Existing(previewDisplay, previewSrc))
  /\ modalDisplay' = "none"
  /\ currentItemKey' = Null
  /\ last' = Ev("closeModal", currentItemKey)
  /\ UNCHANGED <<textareaValue, previewSrc, previewDisplay, fileInput,
                 readers, pageVars, session, roundTrip, saved>>

\* closeModal(), lines 77-81.
CloseModal ==
  /\ Spend
  /\ modalDisplay' = "none"
  /\ currentItemKey' = Null
  /\ last' = Ev("closeModal", currentItemKey)
  /\ UNCHANGED <<storage, textareaValue, previewSrc, previewDisplay, fileInput,
                 readers, pageVars, session, roundTrip, saved>>

\* The visitor types into the popup's text area.
EditText(t) ==
  /\ Spend
  /\ modalDisplay = "flex"
  /\ t # textareaValue
  /\ textareaValue' = t
  /\ last' = Ev("editText", currentItemKey)
  /\ UNCHANGED <<storage, currentItemKey, modalDisplay, previewSrc, previewDisplay,
                 fileInput, readers, pageVars, session, roundTrip, saved>>

\* The visitor picks a file in the popup's file chooser, or clears it.
ChooseFile(f) ==
  /\ Spend
  /\ modalDisplay = "flex"
  /\ f # fileInput
  /\ fileInput' = f
  /\ last' = Ev("chooseFile", currentItemKey)
  /\ UNCHANGED <<storage, currentItemKey, modalDisplay, textareaValue, previewSrc,
                 previewDisplay, readers, pageVars, session, roundTrip, saved>>

\* storeContent that does not close the modal.
StoreContentStaysOpen(text, imageData) ==
  /\ storage' = SetItem(storage, currentItemKey, text, OrEmpty(imageData))
  /\ UNCHANGED <<modalDisplay, currentItemKey>>

\* storeContent(imageData) of saveModal, lines 96-100: writes under the
\* currentItemKey of the moment it runs, then closeModal().
StoreContent(text, imageData) ==
  /\ storage' = SetItem(storage, currentItemKey, text, OrEmpty(imageData))
  /\ modalDisplay' = "none"
  /\ currentItemKey' = Null

\* saveModal without the check of currentItemKey.
SaveModalNoGuard ==
  LET existing == Existing(previewDisplay, previewSrc) IN
  /\ Spend
  /\ last' = Ev("saveModal", currentItemKey)
  /\ IF fileInput # NoFile
     THEN /\ Len(readers) < MaxReaders
          /\ readers' = Append(readers, [text |-> textareaValue, file |-> fileInput,
                                         key |-> currentItemKey])
          /\ session' = [session EXCEPT !.saveTriggered = TRUE]
          /\ UNCHANGED <<storage, currentItemKey, modalDisplay, textareaValue,
                         previewSrc, previewDisplay, fileInput, pageVars, roundTrip, saved>>
     ELSE /\ StoreContent(textareaValue, existing)
          /\ session' = [session EXCEPT !.saveTriggered = TRUE]
          /\ roundTrip' = Overwritten(roundTrip, StorageKey(currentItemKey))
          /\ saved' = saved
          /\ UNCHANGED <<textareaValue, previewSrc, previewDisplay, fileInput,
                         readers, pageVars>>

\* saveModal(), lines 88-119.
SaveModal ==
  LET existing == Existing(previewDisplay, previewSrc) IN
  /\ Spend
  /\ last' = Ev("saveModal", currentItemKey)
  /\ IF currentItemKey = Null
     THEN UNCHANGED <<storage, popupVars, pageVars, session, roundTrip, saved>>
     ELSE IF fileInput # NoFile
     THEN /\ Len(readers) < MaxReaders
          /\ readers' = Append(readers, [text |-> textareaValue, file |-> fileInput,
                                         key |-> currentItemKey])
          /\ session' = [session EXCEPT !.saveTriggered = TRUE]
          /\ UNCHANGED <<storage, currentItemKey, modalDisplay, textareaValue,
                         previewSrc, previewDisplay, fileInput, pageVars, roundTrip, saved>>
     ELSE /\ StoreContent(textareaValue, existing)
          /\ session' = [session EXCEPT !.saveTriggered = TRUE]
          /\ roundTrip' = IF existing = ""
                          THEN RoundTrip(currentItemKey, textareaValue, "")
                          ELSE Overwritten(roundTrip, StorageKey(currentItemKey))
          /\ saved' = saved \cup {currentItemKey}
          /\ UNCHANGED <<textareaValue, previewSrc, previewDisplay, fileInput,
                         readers, pageVars>>

\* expandModal that closes the popup once the page is opened.
ExpandModalCloses ==
  /\ Spend
  /\ IF currentItemKey = Null
     THEN /\ last' = Ev("expandModal", Null)
          /\ UNCHANGED <<currentItemKey, modalDisplay>>
     ELSE /\ last' = [Ev("expandModal", currentItemKey)
                       EXCEPT !.opened = [url |-> ExplanationURL(currentItemKey),
                                          target |-> "_blank"]]
          /\ modalDisplay' = "none"
          /\ currentItemKey' = Null
  /\ UNCHANGED <<storage, textareaValue, previewSrc, previewDisplay, fileInput, readers,
                 pageVars, session, roundTrip, saved>>

\* expandModal(), lines 126-129. The document the new window loads runs
\* initExplanationPage for the item parameter of the URL it was opened with
\* (an InitExplanationPage step of the full page).
ExpandModal ==
  /\ Spend
  /\ last' = IF currentItemKey = Null
             THEN Ev("expandModal", Null)
             ELSE [Ev("expandModal", currentItemKey)
                   EXCEPT !.opened = [url |-> ExplanationURL(currentItemKey),
                                      target |-> "_blank"]]
  /\ UNCHANGED <<storage, popupVars, pageVars, session, roundTrip, saved>>

\* The i-th read in flight was started by the handler that ran last: no other
\* event came between the save and the completion of its read.
Undisturbed(i) ==
  /\ i = Len(readers)
  /\ last.op = "saveModal"
  /\ last.key # Null
  /\ fileInput # NoFile

\* reader.onload of saveModal, lines 104-112, for the i-th read in flight.
ReaderLoad(i) ==
  LET r == readers[i]
      dataURL == Encode(r.file)
  IN
  /\ Spend
  /\ previewSrc' = dataURL
  /\ previewDisplay' = "block"
  /\ StoreContent(r.text, dataURL)
  /\ readers' = Remove(readers, i)
  /\ last' = Ev("readerLoad", currentItemKey)
  /\ roundTrip' = IF Undisturbed(i) THEN RoundTrip(r.key, r.text, dataURL)
                  ELSE Overwritten(roundTrip, StorageKey(currentItemKey))
  /\ saved' = saved \cup {r.key}
  /\ UNCHANGED <<textareaValue, fileInput, pageVars, session>>

NextPopup ==
  \/ \E key \in Keys : OpenModal(key)
  \/ CloseModal
  \/ \E t \in Texts : EditText(t)
  \/ \E f \in Files \cup {NoFile} : ChooseFile(f)
  \/ SaveModal
  \/ \E i \in DOMAIN readers : ReaderLoad(i)
  \/ ExpandModal

\* ------------------------------------------------------------------ full page

\* The try block of initExplanationPage, lines 157-173: whether the fields are
\* assigned at all (not when the entry is absent or empty, when JSON.parse
\* throws, or when reading obj.text of the JSON null throws), and with what.
PageStored(store, key) ==
  LET sk == StorageKey(key) IN
  IF sk \notin DOMAIN store THEN [assigned |-> FALSE, text |-> "", image |-> ""]
  ELSE IF store[sk] = <<>> THEN [assigned |-> FALSE, text |-> "", image |-> ""]
  ELSE LET p == JSONparse(store[sk]) IN
       IF p.throws \/ p.isNull THEN [assigned |-> FALSE, text |-> "", image |-> ""]
       ELSE [assigned |-> TRUE, text |-> OrEmpty(p.text), image |-> OrEmpty(p.image)]

\* initExplanationPage(), lines 147-201, run when explanation.html?item=param is
\* loaded into a fresh document: the fields start as the markup gives them
\* (blank text, no src, some inline display) and reads of an earlier document
\* are gone.
InitExplanationPage(param, markupDisplay) ==
  LET rec == PageStored(storage, param) IN
  /\ Spend
  /\ item' = param
  /\ itemChars' = IF param = Null THEN <<>> ELSE Chars(param)
  /\ heading' = IF param = Null THEN <<>> ELSE Heading(Chars(param))
  /\ itemFile' = NoFile
  /\ itemReaders' = <<>>
  /\ IF param # Null /\ rec.assigned
     THEN /\ itemText' = rec.text
          /\ IF rec.image # ""
             THEN itemImageSrc' = rec.image /\ itemImageDisplay' = "block"
             ELSE itemImageSrc' = "" /\ itemImageDisplay' = "none"
     ELSE /\ itemText' = ""
          /\ itemImageSrc' = ""
          /\ itemImageDisplay' = markupDisplay
  /\ last' = Ev("initExplanationPage", param)
  /\ UNCHANGED <<storage, popupVars, session, roundTrip, saved>>

\* The visitor types into the page's text area.
ItemEditText(t) ==
  /\ Spend
  /\ item # Null
  /\ t # itemText
  /\ itemText' = t
  /\ last' = Ev("itemEditText", item)
  /\ UNCHANGED <<storage, popupVars, item, itemChars, heading, itemImageSrc,
                 itemImageDisplay, itemFile, itemReaders, session, roundTrip, saved>>

\* The visitor picks a file in the page's file chooser, or clears it.
ItemChooseFile(f) ==
  /\ Spend
  /\ item # Null
  /\ f # itemFile
  /\ itemFile' = f
  /\ last' = Ev("itemChooseFile", item)
  /\ UNCHANGED <<storage, popupVars, item, itemChars, heading, itemText, itemImageSrc,
                 itemImageDisplay, itemReaders, session, roundTrip, saved>>

\* storeContent(imageData) of the page's save handler, lines 179-183: reads
\* the text area when it runs and writes under the item of the page.
ItemStoreContent(imageData) ==
  /\ storage' = SetItem(storage, item, itemText, OrEmpty(imageData))
  /\ roundTrip' = Overwritten(roundTrip, StorageKey(item))
  /\ saved' = saved \cup {item}

\* The dialog put up before the entry is written.
ConfirmationBeforeWrite(before, after) ==
  [message |-> "Saved successfully",
   stored |-> IF StorageKey(item) \in DOMAIN before THEN before[StorageKey(item)] ELSE <<>>]

\* alert('Saved successfully') of the page's storeContent, line 182, called
\* after setItem of line 181 has returned: the message, and the entry of the
\* item that is in the store while the dialog is up (before is the store the
\* handler found, after the store setItem left).
Confirmation(before, after) ==
  [message |-> "Saved successfully", stored |-> after[StorageKey(item)]]

\* The click handler of #save-explanation, lines 177-199; it is attached only
\* when the page has an item.
ItemSave ==
  /\ Spend
  /\ item # Null
  /\ IF itemFile # NoFile
     THEN /\ Len(itemReaders) < MaxReaders
          /\ itemReaders' = Append(itemReaders, [file |-> itemFile, text |-> itemText])
          /\ last' = Ev("itemSave", item)
          /\ UNCHANGED <<storage, popupVars, item, itemChars, heading, itemText,
                         itemImageSrc, itemImageDisplay, itemFile, session, roundTrip,
                         saved>>
     ELSE /\ ItemStoreContent(Existing(itemImageDisplay, itemImageSrc))
          /\ last' = [Ev("itemSave", item) EXCEPT !.alert = Confirmation(storage, storage')]
          /\ UNCHANGED <<popupVars, pageVars, session>>

\* reader.onload of the page's save handler, lines 186-193.
ItemReaderLoad(i) ==
  LET dataURL == Encode(itemReaders[i].file) IN
  /\ Spend
  /\ itemImageSrc' = dataURL
  /\ itemImageDisplay' = "block"
  /\ ItemStoreContent(dataURL)
  /\ itemReaders' = Remove(itemReaders, i)
  /\ last' = [Ev("itemReaderLoad", item) EXCEPT !.alert = Confirmation(storage, storage')]
  /\ UNCHANGED <<popupVars, item, itemChars, heading, itemText, itemFile, session>>

NextPage ==
  \/ \E param \in Keys \cup {Null}, d \in MarkupDisplays : InitExplanationPage(param, d)
  \/ \E t \in Texts : ItemEditText(t)
  \/ \E f \in Files \cup {NoFile} : ItemChooseFile(f)
  \/ ItemSave
  \/ \E i \in DOMAIN itemReaders : ItemReaderLoad(i)

\* Lines 148-154 of initExplanationPage for an item parameter given letter
\* by letter: the heading is set from it.
FormatHeading ==
  /\ heading = <<>>
  /\ heading' = Heading(itemChars)
  /\ UNCHANGED <<storage, popupVars, item, itemChars, itemText, itemImageSrc,
                 itemImageDisplay, itemFile, itemReaders, histVars, budget>>

\* A document whose item parameter is any identifier, before its heading is set.
InitHeading ==
  /\ storage \in InitialStores
  /\ InitPopup
  /\ item = Null
  /\ itemChars \in Identifiers
  /\ heading = <<>>
  /\ itemText = ""
  /\ itemImageSrc = ""
  /\ itemImageDisplay = ""
  /\ itemFile = NoFile
  /\ itemReaders = <<>>
  /\ InitHistory
  /\ budget = Unlimited

\* ------------------------------------------------------------------ specifications

Next == NextPopup \/ NextPage

\* The popup and the full page side by side on one storage.
Spec == Init /\ [][Next]_vars

\* The popup alone.
SpecPopup == InitAlone /\ [][NextPopup]_vars

\* The popup alone, where every read in flight completes: the browser fires
\* the load event of a FileReader once the file is read.
FairSpecPopup ==
  /\ InitAlone
  /\ [][NextPopup]_vars
  /\ \A i \in 1..MaxReaders : WF_vars(i \in DOMAIN readers /\ ReaderLoad(i))

\* The full page alone.
SpecPage == InitAlone /\ [][NextPage]_vars

\* The heading of the full page computed for every identifier.
SpecHeading == InitHeading /\ [][FormatHeading]_vars

\* ------------------------------------------------------------------ properties

\* The image a visitor sees in a preview: none when the element is hidden or
\* has no src.
Shown(display, src) == IF display = "none" \/ src = "" THEN "" ELSE Resolve(src)

\* The entry of key in store is the serialised record {text, image}.
HoldsRecord(store, key, text, image) ==
  /\ StorageKey(key) \in DOMAIN store
  /\ store[StorageKey(key)] = <<"{", "text", text, "image", image, "}">>

\* The entry of key in store is present and is no JSON text.
Unparseable(store, key) ==
  /\ StorageKey(key) \in DOMAIN store
  /\ store[StorageKey(key)] # <<>>
  /\ JSONparse(store[StorageKey(key)]).throws

\* The images a stored record may name.
Images == {""} \cup {Encode(f) : f \in Files} \cup RelativeURLs
             \cup {Resolve(u) : u \in RelativeURLs}

PopupClosed == currentItemKey = Null /\ modalDisplay = "none"

\* C1: after a popup save for key k that was given text t and file f (or no
\* file, with no image displayed) and whose write completed with no other
\* event in between, a load of k, by openModal(k) or by the full-page editor
\* for k, shows text t and image Encode(f) (no image when no file was given).
C1_RoundTrip ==
  /\ (last.op = "openModal" /\ roundTrip.known /\ roundTrip.key = currentItemKey)
       => /\ textareaValue = roundTrip.text
          /\ Shown(previewDisplay, previewSrc) = roundTrip.image
  /\ (last.op = "initExplanationPage" /\ roundTrip.known /\ roundTrip.key = item)
       => /\ itemText = roundTrip.text
          /\ Shown(itemImageDisplay, itemImageSrc) = roundTrip.image

C1_Witness ==
  /\ last.op = "initExplanationPage"
  /\ roundTrip.known
  /\ roundTrip.key = item
  /\ roundTrip.text # ""
  /\ roundTrip.image # ""

\* C2: openModal(k) for a key k without an entry shows the empty text and a
\* hidden preview, opens the modal for k, and creates no entry.
C2_AbsentLoadsEmpty ==
  [][\A k \in Keys :
       (last'.op = "openModal" /\ last'.key = k /\ StorageKey(k) \notin DOMAIN storage)
         => /\ textareaValue' = ""
            /\ previewDisplay' = "none"
            /\ modalDisplay' = "flex"
            /\ currentItemKey' = k
            /\ storage' = storage]_vars

C2_Witness ==
  /\ last.op = "openModal"
  /\ StorageKey(currentItemKey) \notin DOMAIN storage
  /\ textareaValue = ""
  /\ previewSrc # ""

\* C3: storage holds an entry 'explanation_' + k exactly when a save triggered
\* in a session opened for k has completed its write; no entry exists under
\* the key derived from null.
C3_EntryIffSaved ==
  \A k \in Keys \cup {Null} : StorageKey(k) \in DOMAIN storage <=> k \in saved

\* C4: openModal(k), the edits of text and file choice that follow it and the
\* closeModal that ends the session, with no saveModal triggered in that
\* session, leave every stored entry as it was.
C4_CloseWithoutSaveKeepsStorage ==
  [][(\/ last'.op = "openModal"
      \/ /\ currentItemKey # Null
         /\ ~session.saveTriggered
         /\ last'.op \in {"editText", "chooseFile", "closeModal"})
       => storage' = storage]_vars

C4_Witness ==
  /\ last.op = "closeModal"
  /\ last.key # Null
  /\ ~session.saveTriggered
  /\ fileInput # NoFile
  /\ HoldsRecord(storage, last.key, "Operating cash balance", "pic.png")
  /\ textareaValue = ""

\* C5: a save with no file chosen while the preview displays an image stores
\* that displayed image, in the popup and on the full page.
C5_KeepsDisplayedImage ==
  [][/\ (/\ last'.op = "saveModal"
         /\ currentItemKey # Null
         /\ fileInput = NoFile
         /\ Shown(previewDisplay, previewSrc) # "")
          => HoldsRecord(storage', currentItemKey, textareaValue,
                         Shown(previewDisplay, previewSrc))
     /\ (/\ last'.op = "itemSave"
         /\ itemFile = NoFile
         /\ Shown(itemImageDisplay, itemImageSrc) # "")
          => HoldsRecord(storage', item, itemText,
                         Shown(itemImageDisplay, itemImageSrc))]_vars

C5_Witness ==
  /\ last.op = "itemSave"
  /\ itemFile = NoFile
  /\ Shown(itemImageDisplay, itemImageSrc) = Resolve("pic.png")
  /\ HoldsRecord(storage, item, itemText, Resolve("pic.png"))

\* C6: in the popup, when the record loaded for k has no image, a saveModal
\* with no file chosen stores image "" for k, whatever was displayed before.
C6_NoImageStaysNone ==
  [][(/\ last'.op = "saveModal"
      /\ currentItemKey # Null
      /\ fileInput = NoFile
      /\ session.image = "")
       => HoldsRecord(storage', currentItemKey, textareaValue, "")]_vars

C6_Witness ==
  /\ last.op = "saveModal"
  /\ last.key # Null
  /\ fileInput = NoFile
  /\ session.image = ""
  /\ previewSrc # ""
  /\ HoldsRecord(storage, last.key, textareaValue, "")

\* C7: right after openModal(k2) the text area shows k2's stored text, the
\* preview shows k2's stored image (hidden when k2 has none, so that a save
\* picks up no other image), and the file chooser is empty, whatever an
\* earlier session left in the fields.
C7_NoLeakage ==
  last.op = "openModal" =>
    /\ fileInput = NoFile
    /\ \A t \in Texts, i \in Images :
         HoldsRecord(storage, currentItemKey, t, i)
           => /\ textareaValue = t
              /\ Shown(previewDisplay, previewSrc) = Resolve(i)
              /\ previewDisplay = IF i = "" THEN "none" ELSE "block"
    /\ (\A t \in Texts, i \in Images : ~HoldsRecord(storage, currentItemKey, t, i))
           => /\ textareaValue = ""
              /\ previewDisplay = "none"

C7_Witness ==
  /\ last.op = "openModal"
  /\ HoldsRecord(storage, currentItemKey, "", "")
  /\ previewSrc # ""
  /\ \E k \in Keys \ {currentItemKey} :
       \E t \in Texts \ {""}, i \in Images \ {""} : HoldsRecord(storage, k, t, i)

\* C8: with no popup session open, saveModal and closeModal change nothing
\* that persists: storage is unchanged, no read is started, and the popup
\* stays closed.
C8_NoSessionNoEffect ==
  [][(currentItemKey = Null /\ last'.op \in {"saveModal", "closeModal"})
       => /\ storage' = storage
          /\ readers' = readers
          /\ PopupClosed']_vars

C8_Witness ==
  /\ last.op = "saveModal"
  /\ last.key = Null
  /\ storage # <<>>
  /\ textareaValue # ""

\* C9: loading a key whose stored value is unparseable, by openModal or by
\* the full-page editor, yields the empty record (text "", no image) in an
\* editor that is open and usable, and leaves the stored value as it was.
C9_UnparseableLoadsEmpty ==
  [][\A k \in Keys :
       /\ (last'.op = "openModal" /\ last'.key = k /\ Unparseable(storage, k))
            => /\ textareaValue' = ""
               /\ Shown(previewDisplay', previewSrc') = ""
               /\ modalDisplay' = "flex"
               /\ currentItemKey' = k
               /\ storage' = storage
       /\ (last'.op = "initExplanationPage" /\ last'.key = k /\ Unparseable(storage, k))
            => /\ itemText' = ""
               /\ Shown(itemImageDisplay', itemImageSrc') = ""
               /\ item' = k
               /\ storage' = storage]_vars

C9_Witness ==
  /\ last.op = "initExplanationPage"
  /\ item # Null
  /\ Unparseable(storage, item)
  /\ itemText = ""
  /\ textareaValue # ""

\* C10: a saveModal triggered with a session open leads to a write after
\* which the popup is closed (at once when no file is chosen), and the popup
\* is closed right after every write of a popup save.
C10_SaveReachesClosed ==
  /\ [](last.op = "readerLoad" => PopupClosed)
  /\ []((last.op = "saveModal" /\ last.key # Null /\ fileInput = NoFile)
          => /\ PopupClosed
             /\ \E i \in Images : HoldsRecord(storage, last.key, textareaValue, i))
  /\ (last.op = "saveModal" /\ last.key # Null)
       ~> (/\ last.op \in {"saveModal", "readerLoad"}
           /\ \E t \in Texts, i \in Images : HoldsRecord(storage, last.key, t, i)
           /\ PopupClosed)

C10_Witness ==
  /\ last.op = "readerLoad"
  /\ last.key # Null
  /\ PopupClosed
  /\ HoldsRecord(storage, last.key, "Operating cash balance", Encode("a.png"))

\* C11: on the full page the item is fixed when the page is loaded; a save
\* step leaves the item and the fields in place; the confirmation is shown
\* only by a save step that has written {text area, image} under the key of
\* the item, with that entry already in the store while the dialog is up, and
\* every such write is confirmed; nothing else on the page changes the store.
C11_SaveKeepsSessionOpen ==
  [][LET confirmed == last'.alert.message # ""
         writes == \/ last'.op = "itemReaderLoad"
                   \/ last'.op = "itemSave" /\ itemFile = NoFile
     IN
     /\ last'.op # "initExplanationPage" => item' = item
     /\ last'.op \in {"itemSave", "itemReaderLoad"}
          => item' # Null /\ itemText' = itemText /\ itemFile' = itemFile
     /\ confirmed
          => /\ writes
             /\ last'.alert.message = "Saved successfully"
             /\ \E i \in Images : /\ storage' = SetItem(storage, item, itemText, i)
                                  /\ last'.alert.stored = JSONstringify([text |-> itemText,
                                                                         image |-> i])
     /\ writes => confirmed
     /\ storage' # storage => confirmed]_vars

C11_Witness ==
  /\ last.op = "itemSave"
  /\ last.alert.message = "Saved successfully"
  /\ item = "cash"
  /\ itemFile = NoFile
  /\ itemText = ""
  /\ HoldsRecord(storage, "cash", "", Encode("a.png"))
  /\ last.alert.stored = storage[StorageKey("cash")]

\* C12: every write, of the popup or of the full page, replaces the whole
\* entry of its key by the record {text, image} of that write and leaves the
\* other entries alone, so that when the popup and the full page both save
\* the same key the entry is the record of the write that came last.
C12_LastWriteWins ==
  [][/\ (last'.op = "saveModal" /\ currentItemKey # Null /\ fileInput = NoFile)
          => storage' = (StorageKey(currentItemKey)
                           :> JSONstringify([text |-> textareaValue,
                                             image |-> Existing(previewDisplay, previewSrc)]))
                        @@ storage
     /\ last'.op = "readerLoad"
          => \E i \in DOMAIN readers :
               storage' = (StorageKey(currentItemKey)
                             :> JSONstringify([text |-> readers[i].text,
                                               image |-> Encode(readers[i].file)]))
                          @@ storage
     /\ (last'.op = "itemSave" /\ itemFile = NoFile)
          => storage' = (StorageKey(item)
                           :> JSONstringify([text |-> itemText,
                                             image |-> Existing(itemImageDisplay, itemImageSrc)]))
                        @@ storage
     /\ last'.op = "itemReaderLoad"
          => \E i \in DOMAIN itemReaders :
               storage' = (StorageKey(item)
                             :> JSONstringify([text |-> itemText,
                                               image |-> Encode(itemReaders[i].file)]))
                          @@ storage]_vars

\* The popup session of cash saved an emptied text, and the full page of cash,
\* loaded before that, saved after it: the entry is the page's record.
C12_Witness ==
  /\ last.op = "itemSave"
  /\ last.alert.message # ""
  /\ item = "cash"
  /\ itemText = "Operating cash balance"
  /\ session.saveTriggered
  /\ PopupClosed
  /\ readers = <<>>
  /\ previewSrc = "pic.png"
  /\ previewDisplay = "block"
  /\ textareaValue = ""
  /\ HoldsRecord(storage, "cash", "Operating cash balance", Resolve("pic.png"))

\* C13: expandModal with a session open for k opens one new window on the
\* explanation page whose item parameter reads back as k, and with no session
\* open it opens none; either way the popup's key, fields, visibility and
\* reads in flight, the store and the full page already open stay as they
\* were, and no other handler opens a window.
C13_ExpandLeavesPopup ==
  [][/\ last'.op = "expandModal"
          => /\ currentItemKey' = currentItemKey
             /\ modalDisplay' = modalDisplay
             /\ textareaValue' = textareaValue
             /\ previewSrc' = previewSrc
             /\ previewDisplay' = previewDisplay
             /\ fileInput' = fileInput
             /\ readers' = readers
             /\ storage' = storage
             /\ pageVars' = pageVars
             /\ IF currentItemKey = Null
                THEN last'.opened = NoWindow
                ELSE /\ last'.opened.target = "_blank"
                     /\ Head(last'.opened.url) = "explanation.html"
                     /\ ItemParam(last'.opened.url) = currentItemKey
     /\ last'.opened # NoWindow => last'.op = "expandModal"]_vars

C13_Witness ==
  /\ last.op = "expandModal"
  /\ currentItemKey = "variance-analysis"
  /\ modalDisplay = "flex"
  /\ textareaValue = "Operating cash balance"
  /\ fileInput = "a.png"
  /\ ItemParam(last.opened.url) = "variance-analysis"

\* An identifier made of words separated by hyphens: every character is a
\* hyphen or a word character (a letter, a digit, an underscore).
IsHyphenated(cs) == \A n \in DOMAIN cs : cs[n] = "-" \/ IsWordChar(cs[n])

\* The identifier with every hyphen replaced by a space and the first
\* character of every word in upper case.
Titled(cs) ==
  [n \in DOMAIN cs |->
     IF cs[n] = "-" THEN " "
     ELSE IF n = 1 \/ cs[n - 1] = "-" THEN ToUpperCase(cs[n])
     ELSE cs[n]]

\* C14: the heading shown for an identifier made of words separated by
\* hyphens is the identifier with every hyphen replaced by a space and the
\* first character of every word upper-cased, the rest unchanged; the
\* heading of "variance-analysis" is "Variance Analysis".
C14_Heading ==
  /\ (heading # <<>> /\ IsHyphenated(itemChars)) => heading = Titled(itemChars)
  /\ Join(Heading(Chars("variance-analysis"))) = "Variance Analysis"

C14_Witness ==
  /\ itemChars = <<"a", "2", "-", "a">>
  /\ heading = <<"A", "2", " ", "A">>

\* C15: every write of a popup save, at once or when the read of its file
\* completes, puts the entry of the key of the session that triggered the
\* save and changes no other entry, whatever openModal, closeModal and
\* saveModal calls came while the read was in flight.
C15_WriteUnderSessionKey ==
  [][/\ (last'.op = "saveModal" /\ currentItemKey # Null /\ fileInput = NoFile)
          => /\ StorageKey(currentItemKey) \in DOMAIN storage'
             /\ \A sk \in DOMAIN storage' \ {StorageKey(currentItemKey)} :
                  sk \in DOMAIN storage /\ storage'[sk] = storage[sk]
     /\ last'.op = "readerLoad"
          => \E i \in DOMAIN readers :
               /\ readers' = Remove(readers, i)
               /\ StorageKey(readers[i].key) \in DOMAIN storage'
               /\ \A sk \in DOMAIN storage' \ {StorageKey(readers[i].key)} :
                    sk \in DOMAIN storage /\ storage'[sk] = storage[sk]]_vars

\* C16: on the full page, as long as the preview has been given no image
\* since the page was loaded (the item had no record, or one that cannot be
\* parsed, or one without image), a save with no file chosen stores the text
\* area with image "", whether the markup shows the preview or hides it.
C16_NoRecordSavesNoImage ==
  [][(/\ last'.op = "itemSave"
      /\ itemFile = NoFile
      /\ itemImageSrc = "")
       => /\ itemImageDisplay \in MarkupDisplays
          /\ HoldsRecord(storage', item, itemText, "")]_vars

\* The page was loaded for an item without a usable record and with the
\* preview visible in the markup, and has saved then.
C16_Witness ==
  /\ last.op = "itemSave"
  /\ last.alert.message # ""
  /\ itemImageDisplay = "block"
  /\ itemImageSrc = ""
  /\ itemText = "Operating cash balance"
  /\ HoldsRecord(storage, item, "Operating cash balance", "")

\* C17: the popup and the full page save alike: with no file chosen each
\* stores its text area and the image its preview displays, and with a file
\* chosen each stores, once the file is read, the text area as it was when
\* the save was triggered and the image read from the file.
C17_SameSave ==
  [][/\ (last'.op = "saveModal" /\ currentItemKey # Null /\ fileInput = NoFile)
          => HoldsRecord(storage', currentItemKey, textareaValue,
                         Existing(previewDisplay, previewSrc))
     /\ (last'.op = "itemSave" /\ itemFile = NoFile)
          => HoldsRecord(storage', item, itemText,
                         Existing(itemImageDisplay, itemImageSrc))
     /\ last'.op = "readerLoad"
          => \E i \in DOMAIN readers :
               HoldsRecord(storage', currentItemKey, readers[i].text,
                           Encode(readers[i].file))
     /\ last'.op = "itemReaderLoad"
          => \E i \in DOMAIN itemReaders :
               HoldsRecord(storage', item, itemReaders[i].text,
                           Encode(itemReaders[i].file))]_vars

====
